---- MODULE Spec2Model ----
(***************************************************************************)
(* run_inference.py: a launcher that assembles a command line for the      *)
(* llama-cli executable, starts it, echoes its output line by line,        *)
(* tracks conversation turns, extracts timing metrics and prints a         *)
(* summary.  Text is modelled as a sequence of tokens (words, punctuation, *)
(* explicit blanks and newlines) so that split / strip / startswith /      *)
(* substring tests / float() are computed as Python computes them.         *)
(***************************************************************************)
EXTENDS Integers, Sequences, FiniteSets, TLC

VARIABLES
    args,                  \* parsed command-line arguments (module-level `args`)
    platform,              \* platform.system()
    release_exists,        \* os.path.exists(build/bin/Release/llama-cli.exe)
    sigint,                \* disposition of SIGINT while the run executes
    pc,                    \* position of the single thread of control
    command,               \* argv handed to subprocess.Popen
    popen_calls,           \* number of subprocess.Popen calls made
    start_time_set,        \* whether local start_time is bound
    output_lines,          \* run_command: output_lines
    console,               \* everything the utility printed, in order
    in_assistant_response, \* run_command: in_assistant_response
    response_count,        \* run_command: response_count
    performance_metrics,   \* run_command: performance_metrics (a dict)
    idx,                   \* position of the extraction loop in output_lines
    returncode,            \* process.returncode: <<>> while None, <<c>> once set
    exit_status,           \* exit status of the utility: <<>> while none
    crash,                 \* name of the uncaught exception, "none" otherwise
    interrupted,           \* whether a SIGINT has been delivered
    interrupted_at         \* pc at which the last SIGINT was delivered

vars == <<args, platform, release_exists, sigint, pc, command, popen_calls,
          start_time_set, output_lines, console, in_assistant_response,
          response_count, performance_metrics, idx, returncode, exit_status,
          crash, interrupted, interrupted_at>>

\* The longest output stream the child writes in a run without -cnv.
MaxLines == 3

\* The longest output stream the child writes in a conversation run.
MaxTurnLines == 4

-----------------------------------------------------------------------------
(* Python string operations on token sequences *)

SP == " "
NL == "\n"
Whitespace == {SP, NL}

\* `p in s`
Contains(s, p) ==
    \E i \in 1..(Len(s) - Len(p) + 1) : SubSeq(s, i, i + Len(p) - 1) = p

\* s.startswith(p)
StartsWith(s, p) == Len(s) >= Len(p) /\ SubSeq(s, 1, Len(p)) = p

\* s.strip()
Strip(s) ==
    LET keep == {i \in 1..Len(s) : s[i] \notin Whitespace}
    IN  IF keep = {} THEN <<>>
        ELSE LET lo == CHOOSE i \in keep : \A j \in keep : i <= j
                 hi == CHOOSE i \in keep : \A j \in keep : i >= j
             IN  SubSeq(s, lo, hi)

\* index of the first occurrence of p in s, 0 when there is none
Find(s, p) ==
    LET hits == {i \in 1..(Len(s) - Len(p) + 1) : SubSeq(s, i, i + Len(p) - 1) = p}
    IN  IF hits = {} THEN 0 ELSE CHOOSE i \in hits : \A j \in hits : i <= j

\* s.split(p): the list of the pieces of s between occurrences of p
RECURSIVE Split(_, _)
Split(s, p) ==
    LET i == Find(s, p)
    IN  IF i = 0 THEN <<s>>
        ELSE <<SubSeq(s, 1, i - 1)>> \o Split(SubSeq(s, i + Len(p), Len(s)), p)

\* xs[-1]
Last(xs) == xs[Len(xs)]

\* Decimal literals of the output, as hundredths.
NumVal ==
    ("80.81" :> 8081) @@ ("12.37" :> 1237) @@ ("112.47" :> 11247) @@
    ("8.89" :> 889) @@ ("8.9" :> 890) @@ ("161.62" :> 16162) @@ ("2" :> 200)

\* float(s) succeeds: s, blanks aside, is one decimal literal
IsFloat(s) == Len(Strip(s)) = 1 /\ Strip(s)[1] \in DOMAIN NumVal

\* float(s), in hundredths
Float(s) == NumVal[Strip(s)[1]]

-----------------------------------------------------------------------------
(* The markers the code looks for *)

PROMPT_EVAL_TIME  == <<"prompt", SP, "eval", SP, "time">>
PROMPT_EVAL       == <<"prompt", SP, "eval">>
EVAL_TIME         == <<"eval", SP, "time">>
MS_PER_TOKEN      == <<"ms", SP, "per", SP, "token">>
TOKENS_PER_SECOND == <<"tokens", SP, "per", SP, "second">>
EQUALS            == <<"=">>
COMMA             == <<",">>
LPAREN            == <<"(">>
RESPONSE_MARKER   == <<">", SP>>
SYSTEM_PREFIX     == <<"System:">>

-----------------------------------------------------------------------------
(* Lines the child may write *)

\* "<label> = 161.62 ms / 2 tokens ( <ms> ms per token, <tps> tokens per second)\n"
TimingLine(label, ms, tps) ==
    label \o <<SP, "=", SP, "161.62", SP, "ms", SP, "/", SP, "2", SP, "tokens", SP,
               "(", SP, ms, SP>> \o MS_PER_TOKEN \o <<",", SP, tps, SP>>
          \o TOKENS_PER_SECOND \o <<")", NL>>

TimingLines ==
    { TimingLine(PROMPT_EVAL_TIME, "80.81", "12.37"),
      TimingLine(EVAL_TIME, "112.47", "8.9"),
      TimingLine(PROMPT_EVAL_TIME, "abc", "12.37"),
      TimingLine(PROMPT_EVAL_TIME, "80.81", "abc"),
      TimingLine(EVAL_TIME, "abc", "8.89"),
      TimingLine(EVAL_TIME, "112.47", "abc") }

ChatLines ==
    { <<">", SP, "hello", NL>>,          \* "> hello"
      <<SP, ">", SP, "hi", NL>>,         \* " > hi"
      <<">", SP, NL>>,                   \* "> " alone
      <<"Paris", NL>>,                   \* plain text
      <<NL>>,                            \* blank line
      <<"System:", SP, "ready", NL>> }   \* "System: ready"

\* What the child writes depends on the mode it was started in.  Without -cnv
\* every chat line takes the same path as plain text (no timing label), and
\* with -cnv every timing line takes the same path as plain text (non-empty,
\* no marker), so one representative of each is kept.
ChildLines(conversation) ==
    IF conversation
    THEN ChatLines \cup {TimingLine(PROMPT_EVAL_TIME, "80.81", "12.37")}
    ELSE TimingLines \cup {<<"Paris", NL>>}

\* The stream bound of the mode
StreamBound(conversation) == IF conversation THEN MaxTurnLines ELSE MaxLines

-----------------------------------------------------------------------------
(* run_inference: the command line *)

Digit == <<"0", "1", "2", "3", "4", "5", "6", "7", "8", "9">>

\* str(n) for an int n >= 0, as a sequence of digit characters
RECURSIVE NatStr(_)
NatStr(n) == IF n < 10 THEN <<Digit[n + 1]>>
             ELSE NatStr(n \div 10) \o <<Digit[(n % 10) + 1]>>

\* str(n) that loses the sign
IntStr_unsigned(n) == IF n < 0 THEN NatStr(0 - n) ELSE NatStr(n)

\* str(n) for an int
IntStr(n) == IF n < 0 THEN <<"-">> \o NatStr(0 - n) ELSE NatStr(n)

\* str(x) for a float x given in tenths: always with a fractional digit
FloatStr(t) ==
    IF t < 0 THEN <<"-">> \o NatStr((0 - t) \div 10) \o <<".", Digit[((0 - t) % 10) + 1]>>
    ELSE NatStr(t \div 10) \o <<".", Digit[(t % 10) + 1]>>

\* lines 155-161
MainPath(plat, exists) ==
    IF plat = "Windows"
    THEN IF exists THEN <<"build/bin/Release/llama-cli.exe">>
                   ELSE <<"build/bin/llama-cli">>
    ELSE <<"build/bin/llama-cli">>

\* lines 162-173
BuildCommand(a, plat, exists) ==
    << MainPath(plat, exists),
       <<"-m">>, a.model,
       <<"-n">>, IntStr(a.n_predict),
       <<"-t">>, IntStr(a.threads),
       <<"-p">>, a.prompt,
       <<"-ngl">>, <<"0">>,
       <<"-c">>, IntStr(a.ctx_size),
       <<"--temp">>, FloatStr(a.temperature) >>
    \o (IF a.conversation THEN << <<"-cnv">> >> ELSE <<>>)

-----------------------------------------------------------------------------
(* What the utility prints *)

Banner == [t |-> "banner"]
\* an echo that trims the line, as print(line.strip()) would
Echo_stripped(line) == [t |-> "echo", line |-> Strip(line)]

Echo(line) == [t |-> "echo", line |-> line]
ResponseBlock(n, threads) == [t |-> "response_metrics", n |-> n, threads |-> threads]
ErrorLine(code) == [t |-> "error", code |-> code]
SpeedHeader == [t |-> "speed_header"]
PhaseLine(phase, tps, ms) == [t |-> "phase", phase |-> phase, tps |-> tps, ms |-> ms]
SpeedFooter(threads) == [t |-> "speed_footer", threads |-> threads]
ConversationBlock(n, threads) ==
    [t |-> "conversation_summary", responses |-> n, threads |-> threads]
InterruptedHeader == [t |-> "interrupted_header"]
InterruptedFooter(threads) == [t |-> "interrupted_footer", threads |-> threads]
CtrlC == [t |-> "ctrl_c"]

-----------------------------------------------------------------------------
(* run_command, lines 40-64: conversation turn tracking *)

\* line 42
TurnStarts(line, in_resp) ==
    StartsWith(Strip(line), RESPONSE_MARKER) /\ ~in_resp

\* line 47 without its System: exclusion
TurnEnds_system(line, in_resp) ==
    /\ in_resp
    /\ Strip(line) # <<>>
    /\ ~StartsWith(Strip(line), RESPONSE_MARKER)

\* line 47
TurnEnds(line, in_resp) ==
    /\ in_resp
    /\ Strip(line) # <<>>
    /\ ~StartsWith(Strip(line), RESPONSE_MARKER)
    /\ ~StartsWith(Strip(line), SYSTEM_PREFIX)

\* lines 49-62 with the block printed before the counter is incremented
ResponsePrinted_stale(count, threads) == <<ResponseBlock(count, threads)>>

\* lines 49-62: the counter is incremented, then the block is printed
ResponsePrinted(count, threads) == <<ResponseBlock(count + 1, threads)>>

\* lines 40-64: new tracker state and what is printed for one line
ConversationTrack(line, in_resp, count, threads) ==
    IF TurnStarts(line, in_resp)
    THEN [in_resp |-> TRUE, count |-> count, printed |-> <<>>]
    ELSE IF TurnEnds(line, in_resp)
    THEN [in_resp |-> FALSE, count |-> count + 1,
          printed |-> ResponsePrinted(count, threads)]
    ELSE [in_resp |-> in_resp, count |-> count, printed |-> <<>>]

-----------------------------------------------------------------------------
(* run_command, lines 79-107: metric extraction *)

MetricKeys == {"prompt_eval_speed", "prompt_eval_ms_per_token",
               "gen_speed", "gen_ms_per_token"}

\* performance_metrics = {}: a key that is absent maps to <<>>
EmptyMetrics == [k \in MetricKeys |-> <<>>]

\* `key in performance_metrics`
HasKey(metrics, key) == metrics[key] # <<>>

\* lines 80, 94: which branch the line takes
Kind(line) ==
    IF Contains(line, PROMPT_EVAL_TIME) THEN "prompt"
    ELSE IF Contains(line, EVAL_TIME) /\ ~Contains(line, PROMPT_EVAL) THEN "gen"
    ELSE "none"

\* lines 82, 96
Parts(line) ==
    IF Contains(line, EQUALS) THEN Strip(Split(line, EQUALS)[2]) ELSE <<>>

\* lines 83, 97: the try block is entered
EntersTry(line) ==
    /\ Kind(line) # "none"
    /\ Contains(Parts(line), MS_PER_TOKEN)
    /\ Contains(Parts(line), TOKENS_PER_SECOND)

\* lines 86, 100
TpsText(parts) == Strip(Last(Split(Split(parts, TOKENS_PER_SECOND)[1], COMMA)))

\* lines 90, 104
MsText(parts) == Strip(Last(Split(Split(parts, MS_PER_TOKEN)[1], LPAREN)))

SpeedKey(kind) == IF kind = "prompt" THEN "prompt_eval_speed" ELSE "gen_speed"
MsKey(kind) == IF kind = "prompt" THEN "prompt_eval_ms_per_token" ELSE "gen_ms_per_token"

\* lines 84-93, 98-107: the try block, left after `upto` assignments at the
\* latest (2: it runs to its end); a failing float() leaves it at once
TryBlock(metrics, line, upto) ==
    LET parts == Parts(line)
        kind  == Kind(line)
    IN  IF upto = 0 \/ ~IsFloat(TpsText(parts)) THEN metrics
        ELSE LET m1 == [metrics EXCEPT ![SpeedKey(kind)] = <<Float(TpsText(parts))>>]
             IN  IF upto = 1 \/ ~IsFloat(MsText(parts)) THEN m1
                 ELSE [m1 EXCEPT ![MsKey(kind)] = <<Float(MsText(parts))>>]

\* lines 80-107: one iteration of the extraction loop
ExtractFrom(metrics, line) ==
    IF EntersTry(line) THEN TryBlock(metrics, line, 2) ELSE metrics

-----------------------------------------------------------------------------
(* run_command, lines 69-78: after the child has exited *)

\* line 69 testing for a negative code only
ChildFailed_negative(rc) == rc < 0

\* line 69
ChildFailed(rc) == rc # 0

\* line 77 taking the metrics branch in every mode
ExtractsMetrics_always(a) == TRUE

\* line 77
ExtractsMetrics(a) == ~a.conversation

-----------------------------------------------------------------------------
(* run_command, lines 110-121: the speed-metrics block *)

\* lines 113-114 and 115-116: [printed, ok]; reading a missing key is a KeyError
PhaseReport(metrics, phase) ==
    IF ~HasKey(metrics, SpeedKey(phase)) THEN [printed |-> <<>>, ok |-> TRUE]
    ELSE IF ~HasKey(metrics, MsKey(phase)) THEN [printed |-> <<>>, ok |-> FALSE]
    ELSE [printed |-> <<PhaseLine(phase, metrics[SpeedKey(phase)][1],
                                  metrics[MsKey(phase)][1])>>,
          ok |-> TRUE]

\* lines 110-121: what is printed, and whether the block was completed
SpeedBlock(metrics, threads) ==
    LET p == PhaseReport(metrics, "prompt")
        g == PhaseReport(metrics, "gen")
    IN  IF ~p.ok THEN [printed |-> <<SpeedHeader>>, ok |-> FALSE]
        ELSE IF ~g.ok THEN [printed |-> <<SpeedHeader>> \o p.printed, ok |-> FALSE]
        ELSE [printed |-> <<SpeedHeader>> \o p.printed \o g.printed
                           \o <<SpeedFooter(threads)>>,
              ok |-> TRUE]

-----------------------------------------------------------------------------
(* Inputs *)

\* argparse defaults, lines 184-190 (model path and prompt as one token each)
DefaultArgs ==
    [model |-> <<"models/bitnet_b1_58-3B/ggml-model-i2_s.gguf">>, n_predict |-> 128,
     prompt |-> <<"Hello">>, threads |-> 2, ctx_size |-> 2048, temperature |-> 8,
     conversation |-> FALSE]

\* Argument sets of a whole run: the defaults, with or without -cnv
RunArgs == {[DefaultArgs EXCEPT !.conversation = c] : c \in BOOLEAN}

\* Argument sets of the launcher alone (temperature in tenths)
LaunchArgs ==
    [model : {<<"models/bitnet_b1_58-3B/ggml-model-i2_s.gguf">>, <<"m.gguf">>},
     n_predict : {-1, 7, 128},
     prompt : {<<"Hello">>, <<"-n", SP, "5">>},
     threads : {1, 2, 12},
     ctx_size : {512, 2048},
     temperature : {0, 8, 10, 15},
     conversation : BOOLEAN]

\* process.returncode values of the child
ReturnCodes == {0, 1, 2}

\* SIGINT runs signal_handler when the file is run as a script (line 181), and
\* raises KeyboardInterrupt when run_command is driven by an importing caller
SigintDispositions == {"signal_handler", "default_int_handler"}

InitWith(argSet, platforms) ==
    /\ args \in argSet
    /\ platform \in platforms
    /\ release_exists \in (IF platform = "Windows" THEN BOOLEAN ELSE {FALSE})
    /\ sigint \in SigintDispositions
    /\ pc = "run_inference"
    /\ command = <<>>
    /\ popen_calls = 0
    /\ start_time_set = FALSE
    /\ output_lines = <<>>
    /\ console = <<>>
    /\ in_assistant_response = FALSE
    /\ response_count = 0
    /\ performance_metrics = EmptyMetrics
    /\ idx = 1
    /\ returncode = <<>>
    /\ exit_status = <<>>
    /\ crash = "none"
    /\ interrupted = FALSE
    /\ interrupted_at = "none"

Init == InitWith(RunArgs, {"Linux"})

InitLaunch == InitWith(LaunchArgs, {"Linux", "Windows"})

-----------------------------------------------------------------------------
(* Ways a run ends *)

\* sys.exit(code)
Exit(code) ==
    /\ pc' = "exited"
    /\ exit_status' = <<code>>
    /\ crash' = "none"

\* an exception nothing catches: traceback, exit status 1
Uncaught(exc) ==
    /\ pc' = "exited"
    /\ exit_status' = <<1>>
    /\ crash' = exc

-----------------------------------------------------------------------------
(* Actions *)

\* lines 154-174: run_inference assembles the command and calls run_command
RunInference ==
    /\ pc = "run_inference"
    /\ command' = BuildCommand(args, platform, release_exists)
    /\ pc' = "run_command"
    /\ UNCHANGED <<args, platform, release_exists, sigint, popen_calls,
                   start_time_set, output_lines, console, in_assistant_response,
                   response_count, performance_metrics, idx, returncode,
                   exit_status, crash, interrupted, interrupted_at>>

\* lines 12-13: banner, start_time
Start ==
    /\ pc = "run_command"
    /\ console' = Append(console, Banner)
    /\ start_time_set' = TRUE
    /\ pc' = "popen"
    /\ UNCHANGED <<args, platform, release_exists, sigint, command, popen_calls,
                   output_lines, in_assistant_response, response_count,
                   performance_metrics, idx, returncode, exit_status, crash,
                   interrupted, interrupted_at>>

\* lines 16-24: the child starts; the run state is initialised
Popen ==
    /\ pc = "popen"
    /\ popen_calls' = popen_calls + 1
    /\ output_lines' = <<>>
    /\ response_count' = 0
    /\ in_assistant_response' = FALSE
    /\ pc' = "read"
    /\ UNCHANGED <<args, platform, release_exists, sigint, command,
                   start_time_set, console, performance_metrics, idx, returncode,
                   exit_status, crash, interrupted, interrupted_at>>

\* line 16: the executable cannot be started; OSError is caught nowhere
PopenFails ==
    /\ pc = "popen"
    /\ popen_calls' = popen_calls + 1
    /\ Uncaught("OSError")
    /\ UNCHANGED <<args, platform, release_exists, sigint, command,
                   start_time_set, output_lines, console, in_assistant_response,
                   response_count, performance_metrics, idx, returncode,
                   interrupted, interrupted_at>>

\* lines 27-64: one iteration of the read loop, for a line the child wrote
ReadLine ==
    /\ pc = "read"
    /\ Len(output_lines) < StreamBound(args.conversation)
    /\ \E line \in ChildLines(args.conversation) :
        LET trk == IF args.conversation
                   THEN ConversationTrack(line, in_assistant_response,
                                          response_count, args.threads)
                   ELSE [in_resp |-> in_assistant_response,
                         count |-> response_count, printed |-> <<>>]
        IN  /\ output_lines' = Append(output_lines, line)
            /\ console' = Append(console, Echo(line)) \o trk.printed
            /\ in_assistant_response' = trk.in_resp
            /\ response_count' = trk.count
    /\ UNCHANGED <<args, platform, release_exists, sigint, pc, command,
                   popen_calls, start_time_set, performance_metrics, idx,
                   returncode, exit_status, crash, interrupted, interrupted_at>>

\* line 27: the child closed its output; the loop ends
EndOfStream ==
    /\ pc = "read"
    /\ pc' = "wait"
    /\ UNCHANGED <<args, platform, release_exists, sigint, command, popen_calls,
                   start_time_set, output_lines, console, in_assistant_response,
                   response_count, performance_metrics, idx, returncode,
                   exit_status, crash, interrupted, interrupted_at>>

\* line 67: process.wait() returns and sets process.returncode
Wait ==
    /\ pc = "wait"
    /\ \E c \in ReturnCodes : returncode' = <<c>>
    /\ pc' = "check"
    /\ UNCHANGED <<args, platform, release_exists, sigint, command, popen_calls,
                   start_time_set, output_lines, console, in_assistant_response,
                   response_count, performance_metrics, idx, exit_status, crash,
                   interrupted, interrupted_at>>

\* lines 69-71: a non-zero exit code is reported and the utility exits 1
CheckFailed ==
    /\ pc = "check"
    /\ ChildFailed(returncode[1])
    /\ console' = Append(console, ErrorLine(returncode[1]))
    /\ Exit(1)
    /\ UNCHANGED <<args, platform, release_exists, sigint, command, popen_calls,
                   start_time_set, output_lines, in_assistant_response,
                   response_count, performance_metrics, idx, returncode,
                   interrupted, interrupted_at>>

\* lines 69, 73-78, 122: exit code 0; branch on the mode
CheckPassed ==
    /\ pc = "check"
    /\ ~ChildFailed(returncode[1])
    /\ pc' = IF ExtractsMetrics(args) THEN "extract" ELSE "conversation_summary"
    /\ performance_metrics' = EmptyMetrics
    /\ idx' = 1
    /\ UNCHANGED <<args, platform, release_exists, sigint, command, popen_calls,
                   start_time_set, output_lines, console, in_assistant_response,
                   response_count, returncode, exit_status, crash, interrupted,
                   interrupted_at>>

\* lines 79-107: one iteration of the extraction loop
ExtractLine ==
    /\ pc = "extract"
    /\ idx <= Len(output_lines)
    /\ performance_metrics' = ExtractFrom(performance_metrics, output_lines[idx])
    /\ idx' = idx + 1
    /\ UNCHANGED <<args, platform, release_exists, sigint, pc, command,
                   popen_calls, start_time_set, output_lines, console,
                   in_assistant_response, response_count, returncode, exit_status,
                   crash, interrupted, interrupted_at>>

\* line 79: the extraction loop ends
ExtractDone ==
    /\ pc = "extract"
    /\ idx > Len(output_lines)
    /\ pc' = "report"
    /\ UNCHANGED <<args, platform, release_exists, sigint, command, popen_calls,
                   start_time_set, output_lines, console, in_assistant_response,
                   response_count, performance_metrics, idx, returncode,
                   exit_status, crash, interrupted, interrupted_at>>

\* lines 110-121: the speed-metrics block is printed in full
Report ==
    /\ pc = "report"
    /\ SpeedBlock(performance_metrics, args.threads).ok
    /\ console' = console \o SpeedBlock(performance_metrics, args.threads).printed
    /\ pc' = "return"
    /\ UNCHANGED <<args, platform, release_exists, sigint, command, popen_calls,
                   start_time_set, output_lines, in_assistant_response,
                   response_count, performance_metrics, idx, returncode,
                   exit_status, crash, interrupted, interrupted_at>>

\* lines 114, 116: the speed key is present and its ms key is not: KeyError,
\* which neither except clause of run_command catches
ReportKeyError ==
    /\ pc = "report"
    /\ ~SpeedBlock(performance_metrics, args.threads).ok
    /\ console' = console \o SpeedBlock(performance_metrics, args.threads).printed
    /\ Uncaught("KeyError")
    /\ UNCHANGED <<args, platform, release_exists, sigint, command, popen_calls,
                   start_time_set, output_lines, in_assistant_response,
                   response_count, performance_metrics, idx, returncode,
                   interrupted, interrupted_at>>

\* lines 124-132: the conversation summary
ConversationSummary ==
    /\ pc = "conversation_summary"
    /\ console' = Append(console, ConversationBlock(response_count, args.threads))
    /\ pc' = "return"
    /\ UNCHANGED <<args, platform, release_exists, sigint, command, popen_calls,
                   start_time_set, output_lines, in_assistant_response,
                   response_count, performance_metrics, idx, returncode,
                   exit_status, crash, interrupted, interrupted_at>>

\* line 134 (and, as a script, falling off the end of the file: status 0)
Return ==
    /\ pc = "return"
    /\ pc' = "returned"
    /\ exit_status' = IF sigint = "signal_handler" THEN <<0>> ELSE <<>>
    /\ UNCHANGED <<args, platform, release_exists, sigint, command, popen_calls,
                   start_time_set, output_lines, console, in_assistant_response,
                   response_count, performance_metrics, idx, returncode, crash,
                   interrupted, interrupted_at>>

-----------------------------------------------------------------------------
(* SIGINT.  CPython runs the handler between two bytecodes of the main     *)
(* thread, so the exception it raises surfaces at the current position.    *)

\* positions inside the try statement of run_command (lines 11-134)
InRunCommand == {"run_command", "popen", "read", "wait", "check", "extract",
                 "report", "conversation_summary", "return"}

\* the extraction loop is inside the inner try block of lines 84-93 / 98-107
InInnerTry == /\ pc = "extract"
              /\ idx <= Len(output_lines)
              /\ EntersTry(output_lines[idx])

\* lines 176-178: signal_handler prints and raises SystemExit(0), which no
\* except clause of lines 136-139 catches
SigintHandled ==
    /\ sigint = "signal_handler"
    /\ pc \in InRunCommand
    /\ console' = Append(console, CtrlC)
    /\ interrupted' = TRUE
    /\ interrupted_at' = pc
    /\ Exit(0)
    /\ UNCHANGED <<args, platform, release_exists, sigint, command, popen_calls,
                   start_time_set, output_lines, in_assistant_response,
                   response_count, performance_metrics, idx, returncode>>

\* lines 139-152: KeyboardInterrupt caught; the interrupted summary, exit 0
KeyboardInterruptCaught ==
    /\ sigint = "default_int_handler"
    /\ pc \in InRunCommand
    /\ start_time_set
    /\ console' = console \o <<InterruptedHeader, InterruptedFooter(args.threads)>>
    /\ interrupted' = TRUE
    /\ interrupted_at' = pc
    /\ Exit(0)
    /\ UNCHANGED <<args, platform, release_exists, sigint, command, popen_calls,
                   start_time_set, output_lines, in_assistant_response,
                   response_count, performance_metrics, idx, returncode>>

\* lines 139-144: KeyboardInterrupt before line 13 ran; line 144 reads the
\* unbound start_time after the header was printed: UnboundLocalError
KeyboardInterruptUnbound ==
    /\ sigint = "default_int_handler"
    /\ pc \in InRunCommand
    /\ ~start_time_set
    /\ console' = Append(console, InterruptedHeader)
    /\ interrupted' = TRUE
    /\ interrupted_at' = pc
    /\ Uncaught("UnboundLocalError")
    /\ UNCHANGED <<args, platform, release_exists, sigint, command, popen_calls,
                   start_time_set, output_lines, in_assistant_response,
                   response_count, performance_metrics, idx, returncode>>

\* lines 92, 106: the bare `except: pass` catches what the SIGINT raised
\* (SystemExit from signal_handler, or KeyboardInterrupt) after `done`
\* assignments of the try block; the loop goes on with the next line
SigintSwallowed ==
    /\ InInnerTry
    /\ \E done \in {0, 1} :
        performance_metrics' = TryBlock(performance_metrics, output_lines[idx], done)
    /\ idx' = idx + 1
    /\ console' = IF sigint = "signal_handler" THEN Append(console, CtrlC) ELSE console
    /\ interrupted' = TRUE
    /\ interrupted_at' = pc
    /\ UNCHANGED <<args, platform, release_exists, sigint, pc, command,
                   popen_calls, start_time_set, output_lines,
                   in_assistant_response, response_count, returncode, exit_status,
                   crash>>

-----------------------------------------------------------------------------
(* Specifications *)

Next ==
    \/ RunInference
    \/ Start
    \/ Popen
    \/ PopenFails
    \/ ReadLine
    \/ EndOfStream
    \/ Wait
    \/ CheckFailed
    \/ CheckPassed
    \/ ExtractLine
    \/ ExtractDone
    \/ Report
    \/ ReportKeyError
    \/ ConversationSummary
    \/ Return
    \/ SigintHandled
    \/ KeyboardInterruptCaught
    \/ KeyboardInterruptUnbound
    \/ SigintSwallowed

\* A whole run with the default arguments.
Spec == Init /\ [][Next]_vars

NextLaunch ==
    \/ RunInference
    \/ Start
    \/ Popen
    \/ PopenFails

\* The launcher alone, over many argument sets, up to the start of the child.
LaunchSpec == InitLaunch /\ [][NextLaunch]_vars

-----------------------------------------------------------------------------
(* Vocabulary of the properties *)

Terminated == pc \in {"exited", "returned"}

\* positions of the console items of one of the kinds ts
At(ts) == {i \in DOMAIN console : console[i].t \in ts}

\* complete end-of-run summary blocks printed so far
SummaryBlocks ==
    Cardinality(At({"speed_footer", "conversation_summary", "interrupted_footer"}))

\* the lines echoed on a console, in order
RECURSIVE EchoedLines(_)
EchoedLines(c) ==
    IF c = <<>> THEN <<>>
    ELSE IF Head(c).t = "echo" THEN <<Head(c).line>> \o EchoedLines(Tail(c))
    ELSE EchoedLines(Tail(c))

\* the numbers of the per-response blocks on a console, in order
RECURSIVE BlockNumbers(_)
BlockNumbers(c) ==
    IF c = <<>> THEN <<>>
    ELSE IF Head(c).t = "response_metrics" THEN <<Head(c).n>> \o BlockNumbers(Tail(c))
    ELSE BlockNumbers(Tail(c))

InStream(line) == \E i \in DOMAIN output_lines : output_lines[i] = line

\* timing lines by shape
GoodPromptLine == TimingLine(PROMPT_EVAL_TIME, "80.81", "12.37")
GoodGenLine    == TimingLine(EVAL_TIME, "112.47", "8.9")
BadPromptLines == {TimingLine(PROMPT_EVAL_TIME, "abc", "12.37"),
                   TimingLine(PROMPT_EVAL_TIME, "80.81", "abc")}
BadGenLines    == {TimingLine(EVAL_TIME, "abc", "8.89"),
                   TimingLine(EVAL_TIME, "112.47", "abc")}
BadLinePresent == \E l \in BadPromptLines \cup BadGenLines : InStream(l)

\* a finished run without -cnv whose child exited 0 and nobody interrupted
PlainRunEnded ==
    /\ ~args.conversation
    /\ returncode = <<0>>
    /\ ~interrupted
    /\ Terminated

PhasePrinted(phase) == \E i \in At({"phase"}) : console[i].phase = phase

-----------------------------------------------------------------------------
(* Properties *)

\* C1: a run the user interrupts while the output is read, while the child is
\* waited for or while the report is produced never ends with exit status 1
\* (stated for streams whose timing lines are all well formed).
C1_InterruptNeverExitsOne ==
    ( /\ interrupted
      /\ interrupted_at \in {"read", "wait", "check", "extract", "report",
                             "conversation_summary", "return"}
      /\ ~BadLinePresent
      /\ Terminated )
    => exit_status # <<1>>

\* C2: run as a script, a run interrupted while the child's output is read
\* has printed the interrupted-run summary block when it terminates.
C2_InterruptedSummaryPrinted ==
    ( /\ sigint = "signal_handler"
      /\ interrupted
      /\ interrupted_at = "read"
      /\ Terminated )
    => At({"interrupted_footer"}) # {}

\* C3: a run without -cnv whose child exits 0 and whose stream holds a
\* malformed timing line returns normally with the speed-metrics block
\* complete, and a phase whose only timing lines are malformed has no line.
C3_MalformedLineTolerated ==
    (PlainRunEnded /\ BadLinePresent)
    => /\ pc = "returned"
       /\ crash = "none"
       /\ At({"speed_footer"}) # {}
       /\ ((\E l \in BadPromptLines : InStream(l)) /\ ~InStream(GoodPromptLine))
            => ~PhasePrinted("prompt")
       /\ ((\E l \in BadGenLines : InStream(l)) /\ ~InStream(GoodGenLine))
            => ~PhasePrinted("gen")

\* C4: once the child has exited with a non-zero code c and nobody interrupted,
\* the run goes nowhere but to the error exit: it prints the error naming c and
\* exits 1, in both modes, and never returns or exits 0.
C4_NonZeroExitIsFatal ==
    (returncode # <<>> /\ returncode # <<0>> /\ ~interrupted)
    => /\ pc \in {"check", "exited"}
       /\ pc = "exited" =>
            /\ exit_status = <<1>>
            /\ crash = "none"
            /\ console[Len(console)] = ErrorLine(returncode[1])

C4_Witness ==
    /\ pc = "exited"
    /\ returncode = <<2>>
    /\ ~interrupted
    /\ args.conversation
    /\ exit_status = <<1>>
    /\ Len(output_lines) > 0

\* a stream of k response-start / response-end line pairs
PairStarts == {<<">", SP, "hello", NL>>, <<SP, ">", SP, "hi", NL>>}
PairEnds   == {<<"Paris", NL>>}
IsPairStream(s) ==
    /\ Len(s) % 2 = 0
    /\ \A i \in DOMAIN s : s[i] \in (IF i % 2 = 1 THEN PairStarts ELSE PairEnds)

\* C5: in conversation mode the per-response blocks are numbered 1..k in
\* order, k is the response counter, the conversation summary shows k, and a
\* stream of k start/end pairs gives k.
C5_CounterMatchesBlocks ==
    args.conversation =>
        /\ BlockNumbers(console) = [j \in 1..response_count |-> j]
        /\ \A i \in At({"conversation_summary"}) :
              console[i].responses = Len(BlockNumbers(console))
        /\ IsPairStream(output_lines) => 2 * response_count = Len(output_lines)

C5_Witness ==
    /\ args.conversation
    /\ pc = "returned"
    /\ IsPairStream(output_lines)
    /\ response_count = 2
    /\ BlockNumbers(console) = <<1, 2>>
    /\ \E i \in At({"conversation_summary"}) : console[i].responses = 2

\* C6: in a run without -cnv whose child exits 0, the well-formed prompt line
\* makes the report show 12.37 tokens/sec and 80.81 ms/token, the well-formed
\* generation line makes it show 8.90 and 112.47, each whether or not the other
\* kind is present, and a phase with no line of its kind is not reported.
C6_PhasesReportedIndependently ==
    PlainRunEnded =>
        /\ InStream(GoodPromptLine) =>
              \E i \in At({"phase"}) : console[i] = PhaseLine("prompt", 1237, 8081)
        /\ InStream(GoodGenLine) =>
              \E i \in At({"phase"}) : console[i] = PhaseLine("gen", 890, 11247)
        /\ (\A i \in DOMAIN output_lines : Kind(output_lines[i]) # "prompt")
              => ~PhasePrinted("prompt")
        /\ (\A i \in DOMAIN output_lines : Kind(output_lines[i]) # "gen")
              => ~PhasePrinted("gen")

\* int(s) for the text of an int
DigitValue(c) == CHOOSE d \in 0..9 : Digit[d + 1] = c
RECURSIVE ParseNat(_)
ParseNat(s) == IF Len(s) = 1 THEN DigitValue(s[1])
               ELSE 10 * ParseNat(SubSeq(s, 1, Len(s) - 1)) + DigitValue(s[Len(s)])
ParseInt(s) == IF s[1] = "-" THEN 0 - ParseNat(Tail(s)) ELSE ParseNat(s)

\* float(s), in tenths, for text of the form <digits>.<digit>
ParseTenths(s) ==
    LET body == IF s[1] = "-" THEN Tail(s) ELSE s
        v == 10 * ParseNat(SubSeq(body, 1, Len(body) - 2)) + DigitValue(body[Len(body)])
    IN  IF body[Len(body) - 1] # "." THEN -1
        ELSE IF s[1] = "-" THEN 0 - v ELSE v

\* C7: once Popen has been called it has been called once, with the
\* executable path, -m model, -n n_predict, -t threads, -p prompt, -ngl 0,
\* -c ctx_size, --temp temperature, then -cnv exactly in conversation mode;
\* every value reads back as the value supplied.
C7_CommandLineRoundTrip ==
    /\ popen_calls <= 1
    /\ pc = "read" => popen_calls = 1
    /\ popen_calls = 1 =>
        /\ Len(command) = (IF args.conversation THEN 16 ELSE 15)
        /\ command[1] = (IF platform = "Windows" /\ release_exists
                         THEN <<"build/bin/Release/llama-cli.exe">>
                         ELSE <<"build/bin/llama-cli">>)
        /\ command[2] = <<"-m">> /\ command[3] = args.model
        /\ command[4] = <<"-n">> /\ ParseInt(command[5]) = args.n_predict
        /\ command[6] = <<"-t">> /\ ParseInt(command[7]) = args.threads
        /\ command[8] = <<"-p">> /\ command[9] = args.prompt
        /\ command[10] = <<"-ngl">> /\ command[11] = <<"0">>
        /\ command[12] = <<"-c">> /\ ParseInt(command[13]) = args.ctx_size
        /\ command[14] = <<"--temp">> /\ ParseTenths(command[15]) = args.temperature
        /\ args.conversation => command[16] = <<"-cnv">>

C7_Witness ==
    /\ pc = "read"
    /\ popen_calls = 1
    /\ args.n_predict = -1
    /\ args.temperature = 15
    /\ args.conversation
    /\ platform = "Windows"
    /\ release_exists
    /\ Len(command) = 16

SummaryKinds == {"speed_header", "phase", "speed_footer", "conversation_summary",
                 "interrupted_header", "interrupted_footer"}

\* C9: in every state and both modes the echoed lines are exactly the lines
\* read, unmodified and in order; a per-response block directly follows the
\* echo of the line that caused it; no echo follows any part of a summary.
C9_PassThrough ==
    /\ EchoedLines(console) = output_lines
    /\ \A i \in At({"response_metrics"}) :
          /\ i > 1
          /\ console[i - 1].t = "echo"
          /\ Strip(console[i - 1].line) # <<>>
    /\ \A i \in At(SummaryKinds) : \A j \in At({"echo"}) : j < i

C9_Witness ==
    /\ pc = "returned"
    /\ args.conversation
    /\ Len(output_lines) = MaxTurnLines
    /\ response_count >= 1
    /\ \E i \in DOMAIN output_lines : output_lines[i] = <<SP, ">", SP, "hi", NL>>
    /\ EchoedLines(console) = output_lines

\* the claim's reading of a line
BeginsWithMarker(line) == StartsWith(Strip(line), <<">", " ">>)
BeginsWithSystem(line) == StartsWith(Strip(line), <<"System:">>)
IsBlank(line) == \A i \in DOMAIN line : line[i] \in {" ", "\n"}

\* C10: in conversation mode the tracker starts Idle; a line read in Idle
\* opens a response exactly when it begins with the marker, and prints and
\* counts nothing; a line read inside a response closes it exactly when it is
\* non-blank and begins with neither the marker nor System:, and then prints
\* one block and adds 1 to the counter; any other line, and every step that
\* reads no line (the end of the stream included), changes neither the state
\* nor the counter and prints no block.
C10_TurnTracker ==
    /\ (args.conversation => ~in_assistant_response /\ response_count = 0)
    /\ [][ args.conversation =>
            LET blocks == Len(BlockNumbers(console')) - Len(BlockNumbers(console))
                reads  == Len(output_lines') = Len(output_lines) + 1
                line   == output_lines'[Len(output_lines')]
                ends   == ~IsBlank(line) /\ ~BeginsWithMarker(line)
                          /\ ~BeginsWithSystem(line)
            IN  IF reads /\ ~in_assistant_response /\ BeginsWithMarker(line)
                THEN in_assistant_response' /\ response_count' = response_count
                     /\ blocks = 0
                ELSE IF reads /\ in_assistant_response /\ ends
                THEN ~in_assistant_response' /\ response_count' = response_count + 1
                     /\ blocks = 1
                ELSE /\ in_assistant_response' = in_assistant_response
                     /\ response_count' = response_count
                     /\ blocks = 0 ]_vars

C10_Witness ==
    /\ args.conversation
    /\ pc = "returned"
    /\ in_assistant_response
    /\ response_count = 1
    /\ Len(BlockNumbers(console)) = 1
    /\ output_lines[Len(output_lines)] = <<"System:", SP, "ready", NL>>

====
